---- MODULE Spec2Model ----
(***************************************************************************)
(* Model of LegalGrpcWebClient (legal_grpc_client.cpp): the registry of    *)
(* bidirectional streams active_streams_, the mutex streams_mutex_ that    *)
(* guards it, the public operations startBidirectionalStream,              *)
(* sendEmbeddingRequest, sendSearchRequest and closeStream, and the        *)
(* detached reader thread readStreamResponses spawned by every start.      *)
(*                                                                         *)
(* Every public operation takes streams_mutex_ with a lock_guard on its    *)
(* first line and keeps it to its return, and none of them waits for the   *)
(* remote, so its body is one atomic step that is enabled only when the    *)
(* mutex is free.  readStreamResponses also takes the lock_guard on its    *)
(* first line, but it then blocks in stream->Read while holding it; it is  *)
(* therefore split at the blocking call.                                   *)
(*                                                                         *)
(* A call that finds the mutex taken waits: its action is not enabled.     *)
(***************************************************************************)
EXTENDS Naturals, Sequences, FiniteSets

\* ---- bounds ----
MaxCalls == 3      \* start/send/close calls made in a run
MaxMsgs  == 1      \* inbound messages the remote delivers on one stream
MaxJobs  == 2      \* one-shot jobs run
NumSenders == 2    \* threads of the host that send side by side

SessionIds == {"s1", "s2"}

Handles == 1..MaxCalls       \* the n-th start creates StreamContext n and thread n

Jobs == 1..MaxJobs

Senders == 1..NumSenders

NoHandle == 0
Free     == 0

NoRet == [op |-> "none", id |-> "", value |-> "none"]

VARIABLES
    response_callback_,    \* TRUE once setResponseCallback has stored a callable
    error_callback_,       \* TRUE once setErrorCallback has stored a callable
    completion_callback_,  \* TRUE once setCompletionCallback has stored a callable
    active_streams_,       \* the registry: session id -> handle of its StreamContext
    streams_mutex_,        \* Free, or the reader thread or sender that holds the mutex
    active,                \* StreamContext::active of every handle
    session_id,            \* StreamContext::session_id (and the id its thread captured)
    destroyed,             \* the StreamContext has been destructed
    stream,                \* calls made on StreamContext::stream, in order
    cb,                    \* callbacks invoked on behalf of each handle, in order
    pc,                    \* position of the reader thread of each start
    it,                    \* the handle the reader thread found in the registry
    ret,                   \* the last call that returned, and its return value
    ncalls,                \* start/send/close calls made so far
    nextHandle,            \* number of the next StreamContext to be created
    jobs,                  \* the one-shot jobs: reader and its detached thread
    sender,                \* position of each concurrent sender inside its send
    wire,                  \* the writes each stream's transport has seen, in order
    nsubmitted             \* sends that have passed streams_mutex_ and the guard

vars == <<response_callback_, error_callback_, completion_callback_,
          active_streams_, streams_mutex_, active, session_id, destroyed,
          stream, cb, pc, it, ret, ncalls, nextHandle,
          jobs, sender, wire, nsubmitted>>

registry  == <<active_streams_, active, session_id, destroyed, nextHandle>>
callbacks == <<response_callback_, error_callback_, completion_callback_>>
threads   == <<pc, it, streams_mutex_>>
oneshot   == <<jobs>>
senders   == <<sender, wire, nsubmitted>>

\* ---- helpers ----
Registered(id) == id \in DOMAIN active_streams_

Count(s, x) == Cardinality({i \in 1..Len(s) : s[i] = x})

IsFinish(x) == x \in {"FinishOK", "FinishERR"}

Finishes(h) == Cardinality({i \in 1..Len(stream[h]) : IsFinish(stream[h][i])})

IsWrite(x) == x \in {"Write", "WriteFinal"}

Writes(h) == Cardinality({i \in 1..Len(stream[h]) : IsWrite(stream[h][i])})

Opened(h) == h < nextHandle

Erase(f, id) == [k \in DOMAIN f \ {id} |-> f[k]]

Put(f, id, v) == [k \in DOMAIN f \cup {id} |-> IF k = id THEN v ELSE f[k]]

Bool(b) == IF b THEN "true" ELSE "false"

NoJob == [kind |-> "none", pc |-> "idle", finishes |-> 0, status |-> "none",
          sink |-> <<>>, console |-> 0]

Idle == [pc |-> "idle", h |-> NoHandle, op |-> "none", is_final |-> FALSE,
         ticket |-> 0]

CallbacksRegistered ==
    response_callback_ /\ error_callback_ /\ completion_callback_

\* The host registers its three callbacks first and then makes at most
\* MaxCalls streaming calls.
CanCall == CallbacksRegistered /\ ncalls < MaxCalls

\* The call returns value to the host.
Returned(op, id, value) ==
    /\ CanCall
    /\ ret' = [op |-> op, id |-> id, value |-> value]
    /\ ncalls' = ncalls + 1

Init ==
    /\ response_callback_ = FALSE
    /\ error_callback_ = FALSE
    /\ completion_callback_ = FALSE
    /\ active_streams_ = <<>>
    /\ streams_mutex_ = Free
    /\ active = [h \in Handles |-> FALSE]
    /\ session_id = [h \in Handles |-> ""]
    /\ destroyed = [h \in Handles |-> FALSE]
    /\ stream = [h \in Handles |-> <<>>]
    /\ cb = [h \in Handles |-> <<>>]
    /\ pc = [h \in Handles |-> "unspawned"]
    /\ it = [h \in Handles |-> NoHandle]
    /\ ret = NoRet
    /\ ncalls = 0
    /\ nextHandle = 1
    /\ jobs = [j \in Jobs |-> NoJob]
    /\ sender = [c \in Senders |-> Idle]
    /\ wire = [h \in Handles |-> <<>>]
    /\ nsubmitted = 0

\* ---- callback registration ----
\* The host registers its callbacks, in any order, before it makes its first
\* streaming call.  The reader threads read the callback members without the
\* mutex, so a registration concurrent with a stream would be a data race; the
\* host does not do that.
setResponseCallback ==
    /\ ncalls = 0
    /\ response_callback_' = TRUE
    /\ UNCHANGED <<error_callback_, completion_callback_, registry, threads,
                   stream, cb, ret, ncalls>>
    /\ UNCHANGED <<oneshot, senders>>

setErrorCallback ==
    /\ ncalls = 0
    /\ error_callback_' = TRUE
    /\ UNCHANGED <<response_callback_, completion_callback_, registry, threads,
                   stream, cb, ret, ncalls>>
    /\ UNCHANGED <<oneshot, senders>>

setCompletionCallback ==
    /\ ncalls = 0
    /\ completion_callback_' = TRUE
    /\ UNCHANGED <<response_callback_, error_callback_, registry, threads,
                   stream, cb, ret, ncalls>>
    /\ UNCHANGED <<oneshot, senders>>

\* startBidirectionalStream that forgets context->active = true: the flag keeps
\* its default member initializer, false.
startBidirectionalStream_inactive(id) ==
    /\ streams_mutex_ = Free
    /\ LET h == nextHandle
       IN /\ session_id' = [session_id EXCEPT ![h] = id]
          /\ pc' = [pc EXCEPT ![h] = "spawned"]
          /\ destroyed' = IF Registered(id)
                          THEN [destroyed EXCEPT ![active_streams_[id]] = TRUE]
                          ELSE destroyed
          /\ active_streams_' = Put(active_streams_, id, h)
          /\ nextHandle' = h + 1
    /\ Returned("start", id, id)
    /\ UNCHANGED <<callbacks, active, streams_mutex_, it, stream, cb>>
    /\ UNCHANGED <<oneshot, senders>>

\* ---- startBidirectionalStream ----
startBidirectionalStream(id) ==
    /\ streams_mutex_ = Free
    /\ LET h == nextHandle
       IN /\ active' = [active EXCEPT ![h] = TRUE]
          /\ session_id' = [session_id EXCEPT ![h] = id]
          /\ pc' = [pc EXCEPT ![h] = "spawned"]
          \* operator[] assignment: a context already stored under id is destructed
          /\ destroyed' = IF Registered(id)
                          THEN [destroyed EXCEPT ![active_streams_[id]] = TRUE]
                          ELSE destroyed
          /\ active_streams_' = Put(active_streams_, id, h)
          /\ nextHandle' = h + 1
    /\ Returned("start", id, id)
    /\ UNCHANGED <<callbacks, streams_mutex_, it, stream, cb>>
    /\ UNCHANGED <<oneshot, senders>>

\* ---- sendEmbeddingRequest ----
sendEmbeddingRequest(id, is_final) ==
    /\ streams_mutex_ = Free
    /\ IF ~Registered(id) \/ ~active[active_streams_[id]]
       THEN /\ Returned("embed", id, "false")
            /\ UNCHANGED stream
       ELSE LET h == active_streams_[id]
                w == IF is_final THEN "WriteFinal" ELSE "Write"
            IN \E success \in BOOLEAN :
                 /\ stream' = [stream EXCEPT ![h] =
                                 IF is_final
                                 THEN stream[h] \o <<w, "WritesDone">>
                                 ELSE Append(stream[h], w)]
                 /\ Returned("embed", id, Bool(success))
    /\ UNCHANGED <<callbacks, registry, threads, cb>>
    /\ UNCHANGED <<oneshot, senders>>

\* ---- sendSearchRequest ----
sendSearchRequest(id, is_final) ==
    /\ streams_mutex_ = Free
    /\ IF ~Registered(id) \/ ~active[active_streams_[id]]
       THEN /\ Returned("search", id, "false")
            /\ UNCHANGED stream
       ELSE LET h == active_streams_[id]
                w == IF is_final THEN "WriteFinal" ELSE "Write"
            IN \E success \in BOOLEAN :
                 /\ stream' = [stream EXCEPT ![h] = Append(stream[h], w)]
                 /\ Returned("search", id, Bool(success))
    /\ UNCHANGED <<callbacks, registry, threads, cb>>
    /\ UNCHANGED <<oneshot, senders>>

\* closeStream that forgets active_streams_.erase(it): the entry, and with it
\* the context, stays in the registry.
closeStream_noErase(id) ==
    /\ streams_mutex_ = Free
    /\ IF Registered(id)
       THEN LET h == active_streams_[id]
            IN \E ok \in BOOLEAN :
                 /\ active' = [active EXCEPT ![h] = FALSE]
                 /\ stream' = [stream EXCEPT ![h] = stream[h] \o
                                 <<"WritesDone",
                                   IF ok THEN "FinishOK" ELSE "FinishERR">>]
                 /\ Returned("close", id, Bool(ok))
       ELSE /\ Returned("close", id, "false")
            /\ UNCHANGED <<active, stream>>
    /\ UNCHANGED <<callbacks, active_streams_, destroyed, session_id,
                   nextHandle, threads, cb>>
    /\ UNCHANGED <<oneshot, senders>>

\* closeStream that returns early on a failed Finish, before the erase.
closeStream_keepsOnError(id) ==
    /\ streams_mutex_ = Free
    /\ IF Registered(id)
       THEN LET h == active_streams_[id]
            IN \E ok \in BOOLEAN :
                 /\ active' = [active EXCEPT ![h] = FALSE]
                 /\ stream' = [stream EXCEPT ![h] = stream[h] \o
                                 <<"WritesDone",
                                   IF ok THEN "FinishOK" ELSE "FinishERR">>]
                 /\ active_streams_' = IF ok THEN Erase(active_streams_, id)
                                             ELSE active_streams_
                 /\ destroyed' = [destroyed EXCEPT ![h] = ok]
                 /\ Returned("close", id, Bool(ok))
       ELSE /\ Returned("close", id, "false")
            /\ UNCHANGED <<active, stream, active_streams_, destroyed>>
    /\ UNCHANGED <<callbacks, session_id, nextHandle, threads, cb>>
    /\ UNCHANGED <<oneshot, senders>>

\* ---- closeStream ----
closeStream(id) ==
    /\ streams_mutex_ = Free
    /\ IF Registered(id)
       THEN LET h == active_streams_[id]
            IN \E ok \in BOOLEAN :
                 /\ active' = [active EXCEPT ![h] = FALSE]
                 /\ stream' = [stream EXCEPT ![h] = stream[h] \o
                                 <<"WritesDone",
                                   IF ok THEN "FinishOK" ELSE "FinishERR">>]
                 /\ active_streams_' = Erase(active_streams_, id)
                 /\ destroyed' = [destroyed EXCEPT ![h] = TRUE]
                 /\ Returned("close", id, Bool(ok))
       ELSE /\ Returned("close", id, "false")
            /\ UNCHANGED <<active, stream, active_streams_, destroyed>>
    /\ UNCHANGED <<callbacks, session_id, nextHandle, threads, cb>>
    /\ UNCHANGED <<oneshot, senders>>

\* readStreamResponses that invokes the completion callback before its read
\* loop instead of after it.
readStreamResponses_enter_completesFirst(t) ==
    /\ pc[t] = "spawned"
    /\ streams_mutex_ = Free
    /\ IF Registered(session_id[t])
       THEN /\ it' = [it EXCEPT ![t] = active_streams_[session_id[t]]]
            /\ pc' = [pc EXCEPT ![t] = "reading"]
            /\ streams_mutex_' = t
            /\ cb' = [cb EXCEPT ![active_streams_[session_id[t]]] =
                         IF completion_callback_ THEN Append(@, "completion") ELSE @]
       ELSE /\ pc' = [pc EXCEPT ![t] = "done"]
            /\ UNCHANGED <<it, streams_mutex_, cb>>
    /\ UNCHANGED <<callbacks, registry, stream, ret, ncalls>>
    /\ UNCHANGED <<oneshot, senders>>

\* readStreamResponses that signals completion when it finds no entry, before
\* it returns.
readStreamResponses_enter_completesOnMiss(t) ==
    /\ pc[t] = "spawned"
    /\ streams_mutex_ = Free
    /\ IF Registered(session_id[t])
       THEN /\ it' = [it EXCEPT ![t] = active_streams_[session_id[t]]]
            /\ pc' = [pc EXCEPT ![t] = "reading"]
            /\ streams_mutex_' = t
            /\ UNCHANGED cb
       ELSE /\ pc' = [pc EXCEPT ![t] = "done"]
            /\ cb' = [cb EXCEPT ![t] =
                         IF completion_callback_ THEN Append(@, "completion") ELSE @]
            /\ UNCHANGED <<it, streams_mutex_>>
    /\ UNCHANGED <<callbacks, registry, stream, ret, ncalls>>
    /\ UNCHANGED <<oneshot, senders>>

\* ---- readStreamResponses ----
\* Entry: take the mutex and look the captured id up.
readStreamResponses_enter(t) ==
    /\ pc[t] = "spawned"
    /\ streams_mutex_ = Free
    /\ IF Registered(session_id[t])
       THEN /\ it' = [it EXCEPT ![t] = active_streams_[session_id[t]]]
            /\ pc' = [pc EXCEPT ![t] = "reading"]
            /\ streams_mutex_' = t
       ELSE /\ pc' = [pc EXCEPT ![t] = "done"]
            /\ UNCHANGED <<it, streams_mutex_>>
    /\ UNCHANGED <<callbacks, registry, stream, cb, ret, ncalls>>
    /\ UNCHANGED <<oneshot, senders>>

\* The transport can still hand a message to Read: the terminal status of the
\* stream has not been taken and the remote has messages left to deliver.
ReadDelivers(h) == Finishes(h) = 0 /\ Count(stream[h], "Read") < MaxMsgs

\* One turn of the loop: active is set and Read returned a message.
readStreamResponses_read(t) ==
    /\ pc[t] = "reading"
    /\ active[it[t]]
    /\ ReadDelivers(it[t])
    /\ stream' = [stream EXCEPT ![it[t]] = Append(@, "Read")]
    /\ cb' = [cb EXCEPT ![it[t]] =
                 IF response_callback_ THEN Append(@, "response") ELSE @]
    /\ UNCHANGED <<callbacks, registry, threads, ret, ncalls>>
    /\ UNCHANGED <<oneshot, senders>>

\* readStreamResponses that clears the active flag of its context when the
\* stream has ended, and leaves the entry in the registry.
readStreamResponses_finish_deactivates(t) ==
    /\ pc[t] = "reading"
    /\ \E ok \in BOOLEAN :
         /\ stream' = [stream EXCEPT ![it[t]] =
                          Append(@, IF ok THEN "FinishOK" ELSE "FinishERR")]
         /\ cb' = [cb EXCEPT ![it[t]] =
                      (@ \o (IF ~ok /\ error_callback_ THEN <<"error">> ELSE <<>>))
                         \o (IF completion_callback_ THEN <<"completion">> ELSE <<>>)]
    /\ active' = [active EXCEPT ![it[t]] = FALSE]
    /\ pc' = [pc EXCEPT ![t] = "done"]
    /\ streams_mutex_' = Free
    /\ UNCHANGED <<callbacks, active_streams_, session_id, destroyed, nextHandle,
                   it, ret, ncalls>>
    /\ UNCHANGED <<oneshot, senders>>

\* Loop exit (active cleared, or Read returned false), Finish, the error and
\* completion callbacks, and the release of the mutex at return.
readStreamResponses_finish(t) ==
    /\ pc[t] = "reading"
    /\ \E ok \in BOOLEAN :
         /\ stream' = [stream EXCEPT ![it[t]] =
                          Append(@, IF ok THEN "FinishOK" ELSE "FinishERR")]
         /\ cb' = [cb EXCEPT ![it[t]] =
                      (@ \o (IF ~ok /\ error_callback_ THEN <<"error">> ELSE <<>>))
                         \o (IF completion_callback_ THEN <<"completion">> ELSE <<>>)]
    /\ pc' = [pc EXCEPT ![t] = "done"]
    /\ streams_mutex_' = Free
    /\ UNCHANGED <<callbacks, registry, it, ret, ncalls>>
    /\ UNCHANGED <<oneshot, senders>>

Next ==
    \/ setResponseCallback
    \/ setErrorCallback
    \/ setCompletionCallback
    \/ \E id \in SessionIds : startBidirectionalStream(id)
    \/ \E id \in SessionIds, is_final \in BOOLEAN : sendEmbeddingRequest(id, is_final)
    \/ \E id \in SessionIds, is_final \in BOOLEAN : sendSearchRequest(id, is_final)
    \/ \E id \in SessionIds : closeStream(id)
    \/ \E t \in Handles : readStreamResponses_enter(t)
    \/ \E t \in Handles : readStreamResponses_read(t)
    \/ \E t \in Handles : readStreamResponses_finish(t)

Spec == Init /\ [][Next]_vars

TypeOK ==
    /\ DOMAIN active_streams_ \subseteq SessionIds
    /\ \A id \in DOMAIN active_streams_ : active_streams_[id] \in Handles
    /\ streams_mutex_ \in {Free} \cup Handles \cup {MaxCalls + 1 + c : c \in Senders}
    /\ nsubmitted \in 0..MaxCalls
    /\ \A c \in Senders : sender[c].pc \in {"idle", "writing"}
    /\ \A j \in Jobs : jobs[j].pc \in {"idle", "reading", "done"}
    /\ nextHandle \in 1..(MaxCalls + 1)
    /\ ncalls \in 0..MaxCalls

\* ---- vocabulary of the properties ----
\* The terminal status of the stream has been taken: the session has ended.
SessionOver(h) == Opened(h) /\ Finishes(h) > 0

\* Every reader thread that was spawned has returned.
Quiescent == \A t \in Handles : pc[t] \in {"unspawned", "done"}

Completions(h) == Count(cb[h], "completion")

\* The step is the return of a call of operation op.
CallStep(op) == ncalls' = ncalls + 1 /\ ret'.op = op

\* C1: with a completion callback registered, no session sees the completion
\* callback twice, and a session that has ended, with every reader thread
\* returned, has seen it exactly once.
C1_CompletionExactlyOnce ==
    completion_callback_ =>
        \A h \in Handles :
            /\ Completions(h) <= 1
            /\ (SessionOver(h) /\ Quiescent) => Completions(h) = 1

\* C2: once a send with is_final = true has been written on a stream, no
\* later send issues a Write on that stream.
C2_NoWriteAfterFinal ==
    \A h \in Handles : \A i, j \in 1..Len(stream[h]) :
        (i < j /\ stream[h][i] = "WriteFinal") => ~IsWrite(stream[h][j])

\* C3: a startBidirectionalStream on an id that is registered and active
\* opens no stream, spawns no reader thread and leaves the registry entry
\* and its context as they were.
C3_StartOnActiveIdRejected ==
    [][(CallStep("start") /\ Registered(ret'.id)
                          /\ active[active_streams_[ret'.id]])
          => /\ active_streams_' = active_streams_
             /\ nextHandle' = nextHandle
             /\ pc' = pc
             /\ destroyed' = destroyed]_vars

\* C4: every session id has at most one stream that was opened and whose
\* Finish has not been called, and that stream is the one the registry maps
\* the id to.
LiveHandles(id) ==
    {h \in Handles : Opened(h) /\ session_id[h] = id /\ Finishes(h) = 0}

C4_OneLiveHandlePerId ==
    \A id \in SessionIds :
        /\ Cardinality(LiveHandles(id)) <= 1
        /\ \A h \in LiveHandles(id) : Registered(id) /\ active_streams_[id] = h

\* C5: a closeStream on an id that is not registered returns false and
\* changes neither the registry, nor any stream, callback or reader thread;
\* and every closeStream leaves its id unregistered, so that a second
\* closeStream on the id is such a call.
C5_CloseUnknownIsNoOp ==
    [][CallStep("close") =>
          /\ ~Registered(ret'.id) =>
                 /\ ret'.value = "false"
                 /\ UNCHANGED <<registry, threads, callbacks, stream, cb>>
          /\ ret'.id \notin DOMAIN active_streams_']_vars

\* A second closeStream(id) has returned false: the only context ever created
\* for the id was closed by a closeStream whose Finish was OK (it returned
\* true), and the last call, a closeStream(id), returned false.
C5_Witness ==
    /\ ret.op = "close" /\ ret.value = "false"
    /\ \E h \in Handles :
         /\ Opened(h) /\ session_id[h] = ret.id /\ destroyed[h]
         /\ stream[h] = <<"WritesDone", "FinishOK">>
         /\ \A g \in Handles : (Opened(g) /\ session_id[g] = ret.id) => g = h

\* C6: Finish is called at most once on every stream.
C6_FinishAtMostOnce ==
    \A h \in Handles : Finishes(h) <= 1

\* C7: with both callbacks registered, a stream whose Finish returned a
\* non-success status has had the error callback invoked exactly once, and
\* before any completion callback.
C7_ErrorBeforeCompletion ==
    (error_callback_ /\ completion_callback_) =>
        \A h \in Handles :
            Count(stream[h], "FinishERR") > 0 =>
                /\ Count(cb[h], "error") = 1
                /\ \A i, j \in 1..Len(cb[h]) :
                     (cb[h][i] = "completion" /\ cb[h][j] = "error") => j < i

\* C8: no response callback is invoked for a stream after a completion
\* callback has been invoked for it.
C8_NoResponseAfterCompletion ==
    \A h \in Handles : \A i, j \in 1..Len(cb[h]) :
        (i < j /\ cb[h][i] = "completion") => cb[h][j] # "response"

\* A stream has delivered a response and then completed, and the reader
\* thread of an earlier start of the same id has gone through that stream too.
C8_Witness ==
    \E h \in Handles :
        /\ Count(cb[h], "response") >= 1
        /\ Completions(h) >= 1
        /\ it[h] = h /\ pc[h] = "done"
        /\ \E t \in Handles : t # h /\ it[t] = h /\ pc[t] = "done"

\* C9: a send on an id that is not registered is never kept waiting: in every
\* state where the host may call, it can take the mutex and return (false).
C9_SendOnUnknownIdNotBlocked ==
    \A id \in SessionIds :
        (CanCall /\ ~Registered(id)) =>
            /\ ENABLED sendEmbeddingRequest(id, FALSE)
            /\ ENABLED sendSearchRequest(id, TRUE)

\* C10: while a reader thread waits in Read and the host may call, a send on
\* the reader's own session and a start, send or close on any other session
\* can run.
C10_ReaderDoesNotBlockCallers ==
    \A t \in Handles :
        (CanCall /\ pc[t] = "reading") =>
            /\ ENABLED sendEmbeddingRequest(session_id[it[t]], FALSE)
            /\ \A id \in SessionIds \ {session_id[it[t]]} :
                 /\ ENABLED startBidirectionalStream(id)
                 /\ ENABLED sendSearchRequest(id, TRUE)
                 /\ ENABLED closeStream(id)

\* C13: a startBidirectionalStream on an id that is not registered (its
\* previous session was closed) returns the id and registers a fresh context
\* for it: active, with an untouched stream; and a send on a registered id
\* is not rejected, it issues its Write on the registered stream.
C13_RestartAfterClose ==
    [][/\ (CallStep("start") /\ ~Registered(ret'.id)) =>
              /\ ret'.value = ret'.id
              /\ ret'.id \in DOMAIN active_streams_'
              /\ active_streams_'[ret'.id] = nextHandle
              /\ active'[nextHandle]
              /\ ~destroyed'[nextHandle]
              /\ stream'[nextHandle] = <<>>
       /\ ((CallStep("embed") \/ CallStep("search")) /\ Registered(ret'.id)) =>
              LET h == active_streams_[ret'.id]
              IN /\ Len(stream'[h]) > Len(stream[h])
                 /\ IsWrite(stream'[h][Len(stream[h]) + 1])]_vars

\* The id of a session that closeStream has closed was started again: the
\* last call is that start, the first context of the id was finished and
\* destructed by closeStream, and a second, active one is registered.
C13_Witness ==
    /\ ret.op = "start" /\ Registered(ret.id)
    /\ active[active_streams_[ret.id]]
    /\ \E g \in Handles :
         /\ g # active_streams_[ret.id]
         /\ session_id[g] = ret.id /\ destroyed[g]
         /\ stream[g] \in {<<"WritesDone", "FinishOK">>, <<"WritesDone", "FinishERR">>}

\* C14: once a reader thread has gone through the end of a stream, the
\* context of that stream is not active and not in the registry any more.
C14_ReaderRemovesSession ==
    \A t \in Handles :
        (pc[t] = "done" /\ it[t] # NoHandle) =>
            /\ ~active[it[t]]
            /\ \A id \in DOMAIN active_streams_ : active_streams_[id] # it[t]

\* C15: on every stream, the Write of a final send is followed at once, in the
\* same send, by WritesDone.
C15_FinalWriteHalfCloses ==
    \A h \in Handles : \A i \in 1..Len(stream[h]) :
        stream[h][i] = "WriteFinal" =>
            (i < Len(stream[h]) /\ stream[h][i + 1] = "WritesDone")

\* C16: the stream a reader thread reads and finishes is the one created by
\* the start that spawned the thread.
C16_OwnReaderOnly ==
    \A t \in Handles : it[t] # NoHandle => it[t] = t

\* C18: every context in the registry has active = true, and so has the
\* context of every reader thread that is in its read loop: a send passes
\* its guard whenever the id is registered, and the loop condition never
\* fails on the flag.
C18_RegisteredIsActive ==
    /\ \A id \in DOMAIN active_streams_ : active[active_streams_[id]]
    /\ \A t \in Handles : pc[t] = "reading" => active[it[t]]

\* A closeStream has cleared the flag of a context and erased it, another
\* context is registered and a reader thread is in its read loop.
C18_Witness ==
    /\ \E h \in Handles : destroyed[h] /\ ~active[h] /\ Finishes(h) > 0
    /\ \E t \in Handles : pc[t] = "reading" /\ Registered(session_id[it[t]])

\* C19: a reader thread that returns from its first lookup has found no entry
\* for its id; it calls nothing on any stream, invokes no callback and does
\* not keep the mutex.
C19_ReaderMissExitsSilently ==
    [][\A t \in Handles :
          (pc[t] = "spawned" /\ pc'[t] = "done") =>
              /\ ~Registered(session_id[t])
              /\ streams_mutex_' = Free
              /\ UNCHANGED <<stream, cb, it, registry, callbacks>>]_vars

\* closeStream has won the race: the thread of a start returned on its first
\* lookup, and its stream saw only the calls of closeStream and no callback.
C19_Witness ==
    \E t \in Handles :
        /\ pc[t] = "done" /\ it[t] = NoHandle
        /\ destroyed[t] /\ Finishes(t) = 1 /\ Len(stream[t]) = 2
        /\ cb[t] = <<>>
        /\ ~Registered(session_id[t])

\* C20: a closeStream on a registered id returns true exactly when its Finish
\* was OK, every closeStream leaves its id out of the registry, and an id
\* enters the registry only by a startBidirectionalStream of that id.
C20_CloseAlwaysErases ==
    [][/\ CallStep("close") =>
              /\ ret'.id \notin DOMAIN active_streams_'
              /\ Registered(ret'.id) =>
                     LET h == active_streams_[ret'.id]
                     IN /\ destroyed'[h]
                        /\ (ret'.value = "true") <=>
                               (stream'[h][Len(stream'[h])] = "FinishOK")
       /\ \A id \in SessionIds :
              (~Registered(id) /\ id \in DOMAIN active_streams_') =>
                  (CallStep("start") /\ ret'.id = id)]_vars

\* A closeStream on a registered id has returned false: the only context of
\* the id was erased by a closeStream whose Finish was not OK.
C20_Witness ==
    /\ ret.op = "close" /\ ret.value = "false" /\ ~Registered(ret.id)
    /\ \E h \in Handles :
         /\ session_id[h] = ret.id /\ destroyed[h]
         /\ stream[h] = <<"WritesDone", "FinishERR">>
         /\ \A g \in Handles : (Opened(g) /\ session_id[g] = ret.id) => g = h

\* ---- the scenario of C11 ----
\* The host starts sessions with distinct ids, sends one final message on each
\* and closes each, the sessions side by side.  A session takes three calls,
\* so the call budget decides how many sessions the scenario has.
ScenarioSize == MaxCalls \div 3

Started(id) == \E h \in Handles : Opened(h) /\ session_id[h] = id

StartedIds == {id \in SessionIds : Started(id)}

FinalSent(id) ==
    \E h \in Handles :
        /\ Opened(h) /\ session_id[h] = id
        /\ Count(stream[h], "WriteFinal") > 0

Closed(id) == Started(id) /\ ~Registered(id)

Scenario_start(id) ==
    /\ ~Started(id)
    /\ Cardinality(StartedIds) < ScenarioSize
    /\ startBidirectionalStream(id)

Scenario_send(id) ==
    /\ Started(id) /\ ~FinalSent(id) /\ ~Closed(id)
    /\ \/ sendEmbeddingRequest(id, TRUE)
       \/ sendSearchRequest(id, TRUE)

Scenario_close(id) ==
    /\ FinalSent(id) /\ ~Closed(id)
    /\ closeStream(id)

ScenarioNext ==
    \/ setResponseCallback
    \/ setErrorCallback
    \/ setCompletionCallback
    \/ \E id \in SessionIds : Scenario_start(id)
    \/ \E id \in SessionIds : Scenario_send(id)
    \/ \E id \in SessionIds : Scenario_close(id)
    \/ \E t \in Handles : readStreamResponses_enter(t)
    \/ \E t \in Handles : readStreamResponses_read(t)
    \/ \E t \in Handles : readStreamResponses_finish(t)

\* The remote answers a stream and ends it once it has the final message of
\* the session.
RemoteEnds(h) == Count(stream[h], "WriteFinal") > 0

\* Fair scheduling: the host gets to make each of its calls, every thread that
\* can take the mutex eventually runs, and a Read on a stream the remote ends
\* eventually returns false.  Nothing makes a Read return on a stream whose
\* remote is still waiting for the request.
ScenarioFairness ==
    /\ WF_vars(setResponseCallback)
    /\ WF_vars(setErrorCallback)
    /\ WF_vars(setCompletionCallback)
    /\ \A id \in SessionIds :
         /\ WF_vars(Scenario_start(id))
         /\ WF_vars(Scenario_send(id))
         /\ WF_vars(Scenario_close(id))
    /\ \A t \in Handles :
         /\ WF_vars(readStreamResponses_enter(t))
         /\ WF_vars(pc[t] = "reading" /\ RemoteEnds(it[t])
                       /\ readStreamResponses_finish(t))

ScenarioSpec == Init /\ [][ScenarioNext]_vars /\ ScenarioFairness

ScenarioDone ==
    /\ Cardinality(StartedIds) = ScenarioSize
    /\ \A id \in StartedIds : Closed(id)

\* C11: in the scenario, under fair scheduling and a remote that answers and
\* ends each stream, every call returns: eventually every session of the
\* scenario has been closed, and the registry is empty.
C11_ScenarioCompletes ==
    <>(ScenarioDone /\ DOMAIN active_streams_ = {})

\* ---- the one-shot jobs ----
\* processLegalDocument, performSemanticSearch and analyzeCaseSimilarity open
\* a response stream and hand its reader to a detached thread; they use
\* neither the registry nor streams_mutex_.  The ClientContext of the call is
\* a local of the function that the thread outlives; what Read and Finish
\* return is left open.
NewJob(kind) == [NoJob EXCEPT !.kind = kind, !.pc = "reading"]

processLegalDocument(j) ==
    /\ jobs[j].pc = "idle"
    /\ jobs' = [jobs EXCEPT ![j] = NewJob("document")]
    /\ UNCHANGED <<callbacks, registry, threads, stream, cb, ret, ncalls, senders>>

performSemanticSearch(j) ==
    /\ jobs[j].pc = "idle"
    /\ jobs' = [jobs EXCEPT ![j] = NewJob("search")]
    /\ UNCHANGED <<callbacks, registry, threads, stream, cb, ret, ncalls, senders>>

analyzeCaseSimilarity(j) ==
    /\ jobs[j].pc = "idle"
    /\ jobs' = [jobs EXCEPT ![j] = NewJob("similarity")]
    /\ UNCHANGED <<callbacks, registry, threads, stream, cb, ret, ncalls, senders>>

\* One turn of the thread's loop: Read returned a response, which goes to the
\* callback the caller supplied.
oneshot_read(j) ==
    /\ jobs[j].pc = "reading"
    /\ Count(jobs[j].sink, "response") < MaxMsgs
    /\ jobs' = [jobs EXCEPT ![j].sink = Append(@, "response")]
    /\ UNCHANGED <<callbacks, registry, threads, stream, cb, ret, ncalls, senders>>

\* Read returned false: Finish, and console.error for a status that is not OK.
oneshot_finish(j) ==
    /\ jobs[j].pc = "reading"
    /\ \E ok \in BOOLEAN :
         jobs' = [jobs EXCEPT ![j].pc = "done",
                              ![j].finishes = @ + 1,
                              ![j].status = IF ok THEN "OK" ELSE "ERR",
                              ![j].console = IF ok THEN @ ELSE @ + 1]
    /\ UNCHANGED <<callbacks, registry, threads, stream, cb, ret, ncalls, senders>>

JobNext ==
    \/ \E j \in Jobs : processLegalDocument(j)
    \/ \E j \in Jobs : performSemanticSearch(j)
    \/ \E j \in Jobs : analyzeCaseSimilarity(j)
    \/ \E j \in Jobs : oneshot_read(j)
    \/ \E j \in Jobs : oneshot_finish(j)

JobSpec == Init /\ [][JobNext]_vars

\* C12: a one-shot job whose thread has left its read loop has fetched the
\* terminal status once, has delivered a status that is not OK to the sink of
\* the caller as an error, and has delivered exactly one completion signal
\* to that sink.
C12_JobReportsToSink ==
    \A j \in Jobs :
        jobs[j].pc = "done" =>
            /\ jobs[j].finishes = 1
            /\ jobs[j].status = "ERR" => Count(jobs[j].sink, "error") = 1
            /\ Count(jobs[j].sink, "completion") = 1

\* ---- sends of concurrent callers, step by step ----
\* sendEmbeddingRequest and sendSearchRequest seen from threads of the host
\* that call them side by side: a send takes streams_mutex_, looks the
\* session up, and keeps the mutex while its Write is in flight.

\* The name under which sender c holds streams_mutex_.
Holder(c) == MaxCalls + 1 + c

Ops == {"embed", "search"}

\* A send whose lock_guard is released once the handle has been looked up,
\* before the Write.
sendRequest_lock_releasesEarly(c, op, id, is_final) ==
    /\ sender[c].pc = "idle"
    /\ streams_mutex_ = Free
    /\ IF ~Registered(id) \/ ~active[active_streams_[id]]
       THEN /\ Returned(op, id, "false")
            /\ UNCHANGED <<sender, nsubmitted>>
       ELSE /\ CanCall
            /\ ncalls' = ncalls + 1
            /\ nsubmitted' = nsubmitted + 1
            /\ sender' = [sender EXCEPT ![c] =
                             [pc |-> "writing", h |-> active_streams_[id], op |-> op,
                              is_final |-> is_final, ticket |-> nsubmitted + 1]]
            /\ UNCHANGED ret
    /\ UNCHANGED <<callbacks, registry, pc, it, streams_mutex_, stream, cb, oneshot, wire>>

\* lock_guard, find, the guard (return false on a miss), and the call of Write.
\* A send that passes the guard is submitted: it takes the next ticket.
sendRequest_lock(c, op, id, is_final) ==
    /\ sender[c].pc = "idle"
    /\ streams_mutex_ = Free
    /\ IF ~Registered(id) \/ ~active[active_streams_[id]]
       THEN /\ Returned(op, id, "false")
            /\ UNCHANGED <<sender, streams_mutex_, nsubmitted>>
       ELSE /\ CanCall
            /\ ncalls' = ncalls + 1
            /\ nsubmitted' = nsubmitted + 1
            /\ sender' = [sender EXCEPT ![c] =
                             [pc |-> "writing", h |-> active_streams_[id], op |-> op,
                              is_final |-> is_final, ticket |-> nsubmitted + 1]]
            /\ streams_mutex_' = Holder(c)
            /\ UNCHANGED ret
    /\ UNCHANGED <<callbacks, registry, pc, it, stream, cb, oneshot, wire>>

\* Write hands the message to the transport; an embed with is_final calls
\* WritesDone; the return releases the mutex.
sendRequest_write(c) ==
    /\ sender[c].pc = "writing"
    /\ LET h == sender[c].h
           w == IF sender[c].is_final THEN "WriteFinal" ELSE "Write"
       IN /\ wire' = [wire EXCEPT ![h] = Append(@, sender[c].ticket)]
          /\ stream' = [stream EXCEPT ![h] =
                          IF sender[c].is_final /\ sender[c].op = "embed"
                          THEN @ \o <<w, "WritesDone">>
                          ELSE Append(@, w)]
    /\ \E success \in BOOLEAN :
          ret' = [op |-> sender[c].op, id |-> session_id[sender[c].h],
                  value |-> Bool(success)]
    /\ sender' = [sender EXCEPT ![c] = Idle]
    /\ streams_mutex_' = Free
    /\ UNCHANGED <<callbacks, registry, pc, it, cb, ncalls, oneshot, nsubmitted>>

WriteNext ==
    \/ setResponseCallback
    \/ setErrorCallback
    \/ setCompletionCallback
    \/ \E id \in SessionIds : startBidirectionalStream(id)
    \/ \E id \in SessionIds : closeStream(id)
    \/ \E c \in Senders, op \in Ops, id \in SessionIds, is_final \in BOOLEAN :
          sendRequest_lock(c, op, id, is_final)
    \/ \E c \in Senders : sendRequest_write(c)
    \/ \E t \in Handles : readStreamResponses_enter(t)
    \/ \E t \in Handles : readStreamResponses_read(t)
    \/ \E t \in Handles : readStreamResponses_finish(t)

WriteSpec == Init /\ [][WriteNext]_vars

InFlight(c) == sender[c].pc = "writing"

Ascending(s) == \A i, k \in 1..Len(s) : i < k => s[i] < s[k]

\* C17: no two Write calls are in flight on one handle at the same time, and
\* the transport of every stream sees the writes in the order in which their
\* sends passed streams_mutex_.
C17_WritesSerialized ==
    /\ \A c, d \in Senders :
          c # d /\ InFlight(c) /\ InFlight(d) => sender[c].h # sender[d].h
    /\ \A h \in Handles : Ascending(wire[h])
    /\ \A h \in Handles, c \in Senders :
          InFlight(c) /\ sender[c].h = h =>
              \A i \in 1..Len(wire[h]) : wire[h][i] < sender[c].ticket

\* Two senders have written to one stream, the second while the first was
\* not in flight any more.
C17_Witness ==
    \E h \in Handles :
        /\ Len(wire[h]) >= 2
        /\ \A c \in Senders : ~InFlight(c)

====
